---- MODULE Spec2Model ----
(***************************************************************************)
(* Model of the Saathi backend (backend/server.py): the users, reminders   *)
(* and conversations collections of the document store, the HTTP handlers  *)
(* that read and write them, and the chat handler's call to the language   *)
(* model.  A handler that awaits more than once is split at its awaits, so *)
(* that other requests can run between its steps, as they can on the       *)
(* event loop.                                                             *)
(***************************************************************************)
EXTENDS Integers, Sequences, FiniteSets, TLC

VARIABLES
    now,            \* datetime.utcnow(), in microseconds
    nextOid,        \* the next ObjectId the driver generates
    users,          \* db.users, in insertion order
    reminders,      \* db.reminders, in insertion order
    conversations,  \* db.conversations, in insertion order
    proc,           \* per client connection: the handler in flight and its locals
    resp,           \* the response most recently sent
    hist            \* what the clients and the language model have seen so far:
                    \*   sessions[u]: the session ids handed to the language model for u
                    \*   ok_chats[u]: how many chat requests of u were answered 200
                    \*   live[u]: the ids of the reminders created for u and not deleted
                    \*   submitted: the users submitted, each with the id returned

vars == <<now, nextOid, users, reminders, conversations, proc, resp, hist>>

----------------------------------------------------------------------------
(* Bounds of the model *)

MaxTicks == 1        \* the clock takes the values 0 .. MaxTicks * TickUs
TickUs == 500        \* microseconds per tick of the clock
MaxOid == 2          \* documents ever inserted (general specification)
MaxChats == 1        \* chat requests answered 200 or in flight (general specification)
MaxReminders == 2    \* reminders ever created (reminders specification)
MaxOverlap == 2      \* chat requests answered 200 or in flight (chat specification)
ListExtra == 2       \* reminders created beyond ListLimit (list specification)
SeqChats == 3        \* chat requests per user (sequential specification)
MaxHistory == 11     \* chat requests answered 200 or in flight (history specification)

(* Program constants *)
ListLimit == 100     \* to_list(100)
HistoryLimit == 20   \* conversation['messages'][-20:]

Procs == {"c1", "c2"}

----------------------------------------------------------------------------
(* Python values *)

None == <<>>
Some(v) == <<v>>
IsNone(o) == o = <<>>
Val(o) == o[1]

MinuteUs == 60 * 1000000

\* timedelta(minutes=minutes)
timedelta(minutes) == minutes * MinuteUs

\* A datetime as the document store keeps it: BSON datetimes count
\* milliseconds, the driver drops the microseconds below.
BsonDatetime(t) == t - (t % 1000)

MinOf(S) == CHOOSE x \in S : \A y \in S : x <= y

\* The last n elements of s: s[-n:]
LastN(s, n) == IF Len(s) > n THEN SubSeq(s, Len(s) - n + 1, Len(s)) ELSE s

\* The first n elements of s: cursor.to_list(n)
to_list(s, n) == IF Len(s) > n THEN SubSeq(s, 1, n) ELSE s

----------------------------------------------------------------------------
(* ObjectIds.  An ObjectId is a number here; its string form is what the   *)
(* API returns and takes in paths.                                         *)

OidSpace == ListLimit + ListExtra + 4

\* str(ObjectId)
OidStr(oid) == ToString(oid)

\* the strings that are ObjectIds
ValidOidStrs == {OidStr(n) : n \in 1..OidSpace}

\* the ObjectId each of them denotes
OidOf == [s \in ValidOidStrs |-> CHOOSE n \in 1..OidSpace : OidStr(n) = s]

\* bson.ObjectId.is_valid
IsValidOid(s) == s \in ValidOidStrs

\* ObjectId(s), for a valid s (InvalidId is raised otherwise)
ObjectId(s) == OidOf[s]

----------------------------------------------------------------------------
(* The document store.  A document and a filter are records; a collection  *)
(* is the sequence of its documents in insertion order.                    *)

\* the fields that hold datetimes
DatetimeFields == {"created_at", "updated_at", "snoozed_until", "timestamp"}

\* a message list as the document store keeps it
BsonMessages(messages) ==
    [i \in DOMAIN messages |->
        [messages[i] EXCEPT !.timestamp = BsonDatetime(messages[i].timestamp)]]

\* a document, or the fields of a $set, as the document store keeps them
Bson(doc) ==
    [k \in DOMAIN doc |->
        IF k \in DatetimeFields THEN BsonDatetime(doc[k])
        ELSE IF k = "messages" THEN BsonMessages(doc[k])
        ELSE doc[k]]

\* the filter {}
NoFilter == [k \in {} |-> 0]

\* the document matches the filter
Matches(doc, filter) ==
    \A k \in DOMAIN filter : k \in DOMAIN doc /\ doc[k] = filter[k]

\* the places in coll of the documents that match
Matching(coll, filter) == {i \in DOMAIN coll : Matches(coll[i], filter)}

\* collection.insert_one(doc): the collection afterwards
insert_one(coll, doc) == Append(coll, Bson(doc))

\* collection.find_one(filter): the first matching document, or None
find_one(coll, filter) ==
    IF Matching(coll, filter) = {} THEN None
    ELSE Some(coll[MinOf(Matching(coll, filter))])

\* collection.find(filter): the matching documents, in order
find(coll, filter) == SelectSeq(coll, LAMBDA d : Matches(d, filter))

\* update_one, were it update_many({}, ...) once a document matches
update_one_all(coll, filter, fields) ==
    IF Matching(coll, filter) = {} THEN coll
    ELSE [i \in DOMAIN coll |-> Bson(fields) @@ coll[i]]

\* update_one, were it to unset snoozed_until unless the fields name it
update_one_unsnooze(coll, filter, fields) ==
    IF Matching(coll, filter) = {} THEN coll
    ELSE LET k == MinOf(Matching(coll, filter))
             doc == Bson(fields) @@ coll[k]
             keys == IF "snoozed_until" \in DOMAIN fields THEN DOMAIN doc
                     ELSE DOMAIN doc \ {"snoozed_until"}
         IN  [coll EXCEPT ![k] = [f \in keys |-> doc[f]]]

\* update_one, were it called with upsert=True
update_one_upsert(coll, filter, fields) ==
    IF Matching(coll, filter) = {} THEN Append(coll, Bson(fields) @@ filter)
    ELSE [coll EXCEPT ![MinOf(Matching(coll, filter))] = Bson(fields) @@ @]

\* collection.update_one(filter, {"$set": fields}): the collection afterwards
update_one(coll, filter, fields) ==
    IF Matching(coll, filter) = {} THEN coll
    ELSE [coll EXCEPT ![MinOf(Matching(coll, filter))] = Bson(fields) @@ @]

\* UpdateResult.modified_count: 1 when a document matched and was changed
modified_count(coll, filter, fields) ==
    IF update_one(coll, filter, fields) # coll THEN 1 ELSE 0

\* delete_one, were it delete_many({}) once a document matches
delete_one_all(coll, filter) ==
    IF Matching(coll, filter) = {} THEN coll ELSE <<>>

\* collection.delete_one(filter): the collection afterwards
delete_one(coll, filter) ==
    IF Matching(coll, filter) = {} THEN coll
    ELSE LET k == MinOf(Matching(coll, filter))
         IN  SubSeq(coll, 1, k - 1) \o SubSeq(coll, k + 1, Len(coll))

\* DeleteResult.deleted_count
deleted_count(coll, filter) ==
    IF Matching(coll, filter) = {} THEN 0 ELSE 1

----------------------------------------------------------------------------
(* Responses *)

NoResp == [proc |-> "none", op |-> "none", status |-> 0]

Idle == [pc |-> "idle"]

\* raise HTTPException(status_code=status, detail=str(e)) for the exception e
Error(p, op, req, status, e) ==
    [proc |-> p, op |-> op, req |-> req, status |-> status, error |-> e]

Ok(p, op, req, body) ==
    [proc |-> p, op |-> op, req |-> req, status |-> 200, body |-> body]

\* serialize_doc(doc)
serialize_doc(doc) ==
    [k \in (DOMAIN doc \ {"_id"}) \cup {"id"} |->
        IF k = "id" THEN OidStr(doc._id) ELSE doc[k]]

\* User(**d)
User(d) ==
    [id |-> d.id, name |-> d.name, emergency_contacts |-> d.emergency_contacts,
     created_at |-> d.created_at]

\* Reminder(**d); snoozed_until defaults to None
Reminder(d) ==
    [id |-> d.id, user_id |-> d.user_id, type |-> d.type, title |-> d.title,
     time |-> d.time, enabled |-> d.enabled,
     snoozed_until |-> IF "snoozed_until" \in DOMAIN d THEN Some(d.snoozed_until) ELSE None,
     created_at |-> d.created_at]

----------------------------------------------------------------------------
(* User endpoints *)

\* POST /users
create_user(p, user) ==
    /\ proc[p].pc = "idle"
    /\ LET user_dict == [name |-> user.name,
                         emergency_contacts |-> user.emergency_contacts,
                         created_at |-> now]
       IN  /\ users' = insert_one(users, [_id |-> nextOid] @@ user_dict)
           /\ resp' = Ok(p, "create_user", user, User([id |-> OidStr(nextOid)] @@ user_dict))
    /\ nextOid' = nextOid + 1
    /\ hist' = [hist EXCEPT !.submitted = @ \cup {[id |-> OidStr(nextOid), user |-> user]}]
    /\ UNCHANGED <<now, reminders, conversations, proc>>

\* get_user, were it to query without the id: find_one({})
get_user_response_any(p, user_id) ==
    IF ~IsValidOid(user_id)
    THEN Error(p, "get_user", user_id, 400, "InvalidId")
    ELSE LET user == find_one(users, NoFilter)
         IN  IF IsNone(user)
             THEN Error(p, "get_user", user_id, 400, "HTTPException(404, User not found)")
             ELSE Ok(p, "get_user", user_id, User(serialize_doc(Val(user))))

\* GET /users/{user_id}: the response
get_user_response(p, user_id) ==
    IF ~IsValidOid(user_id)
    THEN Error(p, "get_user", user_id, 400, "InvalidId")
    ELSE LET user == find_one(users, [_id |-> ObjectId(user_id)])
         IN  IF IsNone(user)
             \* the HTTPException(404) is raised inside the try and caught by
             \* "except Exception", which answers 400
             THEN Error(p, "get_user", user_id, 400, "HTTPException(404, User not found)")
             ELSE Ok(p, "get_user", user_id, User(serialize_doc(Val(user))))

\* GET /users/{user_id}
get_user(p, user_id) ==
    /\ proc[p].pc = "idle"
    /\ resp' = get_user_response(p, user_id)
    /\ UNCHANGED <<now, nextOid, users, reminders, conversations, proc, hist>>

\* GET /users
get_users(p) ==
    /\ proc[p].pc = "idle"
    /\ resp' = Ok(p, "get_users", None,
                  [i \in DOMAIN to_list(users, ListLimit) |-> User(serialize_doc(users[i]))])
    /\ UNCHANGED <<now, nextOid, users, reminders, conversations, proc, hist>>

----------------------------------------------------------------------------
(* Reminder endpoints *)

\* POST /reminders
create_reminder(p, reminder, user_id) ==
    /\ proc[p].pc = "idle"
    /\ LET reminder_dict == [type |-> reminder.type, title |-> reminder.title,
                             time |-> reminder.time, enabled |-> reminder.enabled,
                             user_id |-> user_id, created_at |-> now]
       IN  /\ reminders' = insert_one(reminders, [_id |-> nextOid] @@ reminder_dict)
           /\ resp' = Ok(p, "create_reminder", [reminder |-> reminder, user_id |-> user_id],
                         Reminder([id |-> OidStr(nextOid)] @@ reminder_dict))
    /\ nextOid' = nextOid + 1
    /\ hist' = [hist EXCEPT !.live[user_id] = @ \cup {OidStr(nextOid)}]
    /\ UNCHANGED <<now, users, conversations, proc>>

\* get_reminders, were it to query without the user_id: find()
get_reminders_list_all(user_id) ==
    LET found == to_list(find(reminders, NoFilter), ListLimit)
    IN  [i \in DOMAIN found |-> Reminder(serialize_doc(found[i]))]

\* GET /reminders?user_id=...: the list returned
get_reminders_list(user_id) ==
    LET found == to_list(find(reminders, [user_id |-> user_id]), ListLimit)
    IN  [i \in DOMAIN found |-> Reminder(serialize_doc(found[i]))]

\* GET /reminders?user_id=...
get_reminders(p, user_id) ==
    /\ proc[p].pc = "idle"
    /\ resp' = Ok(p, "get_reminders", user_id, get_reminders_list(user_id))
    /\ UNCHANGED <<now, nextOid, users, reminders, conversations, proc, hist>>

\* get_reminder, were it to look the reminder up before parsing the id, so
\* that a malformed id is answered as a missing reminder
get_reminder_response_404(p, reminder_id) ==
    LET found == IF IsValidOid(reminder_id)
                 THEN find_one(reminders, [_id |-> ObjectId(reminder_id)])
                 ELSE None
    IN  IF IsNone(found)
        THEN Error(p, "get_reminder", reminder_id, 404, "Reminder not found")
        ELSE Ok(p, "get_reminder", reminder_id, Reminder(serialize_doc(Val(found))))

\* GET /reminders/{reminder_id}: the response
get_reminder_response(p, reminder_id) ==
    IF ~IsValidOid(reminder_id)
    THEN Error(p, "get_reminder", reminder_id, 400, "InvalidId")
    ELSE LET reminder == find_one(reminders, [_id |-> ObjectId(reminder_id)])
         IN  IF IsNone(reminder)
             \* the HTTPException(404) is caught by "except Exception"
             THEN Error(p, "get_reminder", reminder_id, 400,
                        "HTTPException(404, Reminder not found)")
             ELSE Ok(p, "get_reminder", reminder_id, Reminder(serialize_doc(Val(reminder))))

\* GET /reminders/{reminder_id}
get_reminder(p, reminder_id) ==
    /\ proc[p].pc = "idle"
    /\ resp' = get_reminder_response(p, reminder_id)
    /\ UNCHANGED <<now, nextOid, users, reminders, conversations, proc, hist>>

\* {k: v for k, v in update.dict().items() if v is not None}
update_dict(update) ==
    [k \in {f \in DOMAIN update : ~IsNone(update[f])} |-> Val(update[k])]

\* update_reminder, were it not to look whether update_dict is empty
update_reminder_nocheck(p, reminder_id, update) ==
    /\ proc[p].pc = "idle"
    /\ LET req == [reminder_id |-> reminder_id, update |-> update]
       IN  IF ~IsValidOid(reminder_id)
           THEN /\ resp' = Error(p, "update_reminder", req, 400, "InvalidId")
                /\ UNCHANGED <<reminders, proc>>
           ELSE LET filter == [_id |-> ObjectId(reminder_id)]
                IN  /\ reminders' = update_one(reminders, filter, update_dict(update))
                    /\ IF modified_count(reminders, filter, update_dict(update)) = 0
                       THEN /\ resp' = Error(p, "update_reminder", req, 400,
                                             "HTTPException(404, Reminder not found)")
                            /\ UNCHANGED proc
                       ELSE /\ proc' = [proc EXCEPT ![p] = [pc |-> "update_find", req |-> req]]
                            /\ UNCHANGED resp
    /\ UNCHANGED <<now, nextOid, users, conversations, hist>>

\* PATCH /reminders/{reminder_id}, up to the await of update_one
update_reminder(p, reminder_id, update) ==
    /\ proc[p].pc = "idle"
    /\ LET req == [reminder_id |-> reminder_id, update |-> update]
       IN  IF DOMAIN update_dict(update) = {}
           THEN /\ resp' = Error(p, "update_reminder", req, 400,
                                 "HTTPException(400, No fields to update)")
                /\ UNCHANGED <<reminders, proc>>
           ELSE IF ~IsValidOid(reminder_id)
           THEN /\ resp' = Error(p, "update_reminder", req, 400, "InvalidId")
                /\ UNCHANGED <<reminders, proc>>
           ELSE LET filter == [_id |-> ObjectId(reminder_id)]
                IN  /\ reminders' = update_one(reminders, filter, update_dict(update))
                    /\ IF modified_count(reminders, filter, update_dict(update)) = 0
                       THEN /\ resp' = Error(p, "update_reminder", req, 400,
                                             "HTTPException(404, Reminder not found)")
                            /\ UNCHANGED proc
                       ELSE /\ proc' = [proc EXCEPT ![p] = [pc |-> "update_find", req |-> req]]
                            /\ UNCHANGED resp
    /\ UNCHANGED <<now, nextOid, users, conversations, hist>>

\* PATCH /reminders/{reminder_id}, from the await of find_one to the response
update_reminder_find(p) ==
    /\ proc[p].pc = "update_find"
    /\ LET req == proc[p].req
           reminder == find_one(reminders, [_id |-> ObjectId(req.reminder_id)])
       IN  resp' = IF IsNone(reminder)
                   \* Reminder(**None), for a reminder deleted meanwhile
                   THEN Error(p, "update_reminder", req, 400, "TypeError")
                   ELSE Ok(p, "update_reminder", req, Reminder(serialize_doc(Val(reminder))))
    /\ proc' = [proc EXCEPT ![p] = Idle]
    /\ UNCHANGED <<now, nextOid, users, reminders, conversations, hist>>

\* DELETE /reminders/{reminder_id}
delete_reminder(p, reminder_id) ==
    /\ proc[p].pc = "idle"
    /\ IF ~IsValidOid(reminder_id)
       THEN /\ resp' = Error(p, "delete_reminder", reminder_id, 400, "InvalidId")
            /\ UNCHANGED <<reminders, hist>>
       ELSE /\ reminders' = delete_one(reminders, [_id |-> ObjectId(reminder_id)])
            /\ IF deleted_count(reminders, [_id |-> ObjectId(reminder_id)]) = 0
               THEN /\ resp' = Error(p, "delete_reminder", reminder_id, 400,
                                     "HTTPException(404, Reminder not found)")
                    /\ UNCHANGED hist
               ELSE /\ resp' = Ok(p, "delete_reminder", reminder_id,
                                  [message |-> "Reminder deleted successfully"])
                    /\ hist' = [hist EXCEPT !.live =
                                    [u \in DOMAIN @ |-> @[u] \ {reminder_id}],
                                             !.deleted = @ \cup {reminder_id}]
    /\ UNCHANGED <<now, nextOid, users, conversations, proc>>

\* f"Reminder snoozed for {minutes} minutes"
SnoozeMessage(minutes) == "Reminder snoozed for " \o ToString(minutes) \o " minutes"

\* POST /reminders/{reminder_id}/snooze?minutes=...
snooze_reminder(p, reminder_id, minutes) ==
    /\ proc[p].pc = "idle"
    /\ LET req == [reminder_id |-> reminder_id, minutes |-> minutes]
           snoozed_until == now + timedelta(minutes)
       IN  IF ~IsValidOid(reminder_id)
           THEN /\ resp' = Error(p, "snooze_reminder", req, 400, "InvalidId")
                /\ UNCHANGED reminders
           ELSE LET filter == [_id |-> ObjectId(reminder_id)]
                    fields == [snoozed_until |-> snoozed_until]
                IN  /\ reminders' = update_one(reminders, filter, fields)
                    /\ resp' = IF modified_count(reminders, filter, fields) = 0
                               THEN Error(p, "snooze_reminder", req, 400,
                                          "HTTPException(404, Reminder not found)")
                               ELSE Ok(p, "snooze_reminder", req,
                                       [message |-> SnoozeMessage(minutes),
                                        snoozed_until |-> snoozed_until])
    /\ UNCHANGED <<now, nextOid, users, conversations, proc, hist>>

----------------------------------------------------------------------------
(* Chat *)

ChatPcs == {"chat_insert", "chat_llm", "chat_update"}

\* message.user_id or "default"
ChatUser(message) ==
    IF IsNone(message.user_id) \/ message.user_id = Some("") THEN "default"
    ELSE Val(message.user_id)

\* chat, were it never to find the conversation of the user
FindConversation_none(user_id) == None

\* db.conversations.find_one({"user_id": user_id})
FindConversation(user_id) == find_one(conversations, [user_id |-> user_id])

\* chat, were it to append the reply alone
Exchange_reply(text, response, t) ==
    << [role |-> "assistant", content |-> response, timestamp |-> t] >>

\* the two entries a chat appends to conversation['messages']
Exchange(text, response, t) ==
    << [role |-> "user", content |-> text, timestamp |-> t],
       [role |-> "assistant", content |-> response, timestamp |-> t] >>

\* chat, were it to cut the list to its first entries
Appended_head(messages, text, response, t) ==
    SubSeq(messages \o Exchange(text, response, t), 1,
           IF Len(messages) + 2 > HistoryLimit THEN HistoryLimit ELSE Len(messages) + 2)

\* conversation['messages'] after both appends and the cut to the last entries
Appended(messages, text, response, t) ==
    LastN(messages \o Exchange(text, response, t), HistoryLimit)

\* the chat requests of user_id in flight
InFlight(user_id) == {q \in Procs : proc[q].pc \in ChatPcs /\ proc[q].user_id = user_id}

\* POST /chat, up to the await of find_one.  alone records whether any other
\* chat request of the same user is in flight at some time during this one,
\* before the conversations as they are when the request arrives.
chat(p, message) ==
    /\ proc[p].pc = "idle"
    /\ LET user_id == ChatUser(message)
           conversation == FindConversation(user_id)
           locals == [message |-> message, user_id |-> user_id,
                      alone |-> InFlight(user_id) = {}, before |-> conversations]
       IN  proc' = [q \in Procs |->
                        IF q = p
                        THEN IF IsNone(conversation)
                             THEN [pc |-> "chat_insert"] @@ locals
                             ELSE [pc |-> "chat_llm", conversation |-> Val(conversation)]
                                      @@ locals
                        ELSE IF q \in InFlight(user_id)
                             THEN [proc[q] EXCEPT !.alone = FALSE]
                             ELSE proc[q]]
    /\ UNCHANGED <<now, nextOid, users, reminders, conversations, resp, hist>>

\* POST /chat: "if not conversation", up to the await of insert_one
chat_insert(p) ==
    /\ proc[p].pc = "chat_insert"
    /\ LET conversation == [_id |-> nextOid, user_id |-> proc[p].user_id,
                            messages |-> <<>>, created_at |-> now, updated_at |-> now]
       IN  /\ conversations' = insert_one(conversations, conversation)
           /\ proc' = [proc EXCEPT ![p] =
                           [pc |-> "chat_llm", message |-> proc[p].message,
                            user_id |-> proc[p].user_id, alone |-> proc[p].alone,
                            before |-> proc[p].before, conversation |-> conversation]]
    /\ nextOid' = nextOid + 1
    /\ UNCHANGED <<now, users, reminders, resp, hist>>

\* POST /chat: LlmChat(session_id=str(conversation['_id'])) and send_message,
\* which returns response; the handler appends the exchange to its copy of the
\* conversation, up to the await of update_one
chat_llm(p, response) ==
    /\ proc[p].pc = "chat_llm"
    /\ LET c == proc[p].conversation
       IN  /\ hist' = [hist EXCEPT !.sessions[proc[p].user_id] = @ \cup {OidStr(c._id)}]
           /\ proc' = [proc EXCEPT ![p] =
                           [pc |-> "chat_update", message |-> proc[p].message,
                            user_id |-> proc[p].user_id, alone |-> proc[p].alone,
                            before |-> proc[p].before, response |-> response,
                            conversation |->
                                [c EXCEPT !.messages =
                                              Appended(@, proc[p].message.message, response, now),
                                          !.updated_at = now]]]
    /\ UNCHANGED <<now, nextOid, users, reminders, conversations, resp>>

\* POST /chat: send_message raises; "except Exception" answers 500
chat_llm_fails(p) ==
    /\ proc[p].pc = "chat_llm"
    /\ hist' = [hist EXCEPT !.sessions[proc[p].user_id] =
                    @ \cup {OidStr(proc[p].conversation._id)}]
    /\ resp' = Error(p, "chat", proc[p].message, 500, "LlmError")
    /\ proc' = [proc EXCEPT ![p] = Idle]
    /\ UNCHANGED <<now, nextOid, users, reminders, conversations>>

\* chat, were it to append its exchange to the stored list ($push) instead of
\* replacing the list by its own copy ($set)
SetConversation_push(c) ==
    IF Matching(conversations, [_id |-> c._id]) = {} THEN conversations
    ELSE LET i == MinOf(Matching(conversations, [_id |-> c._id]))
         IN  update_one(conversations, [_id |-> c._id],
                        [messages |-> LastN(conversations[i].messages \o LastN(c.messages, 2),
                                            HistoryLimit),
                         updated_at |-> c.updated_at])

\* db.conversations.update_one({"_id": c['_id']},
\*     {"$set": {"messages": c['messages'], "updated_at": c['updated_at']}})
SetConversation(c) ==
    update_one(conversations, [_id |-> c._id],
               [messages |-> c.messages, updated_at |-> c.updated_at])

\* chat, were it to carry out a REMINDER_COMMAND of the language model itself
chat_update_acting(p) ==
    /\ proc[p].pc = "chat_update"
    /\ conversations' = SetConversation(proc[p].conversation)
    /\ resp' = [proc |-> p, op |-> "chat", req |-> proc[p].message, status |-> 200,
                body |-> [response |-> proc[p].response, timestamp |-> now],
                wrote |-> proc[p].conversation, alone |-> proc[p].alone]
    /\ hist' = [hist EXCEPT !.ok_chats[proc[p].user_id] = @ + 1,
                             !.log[proc[p].user_id] =
                                 @ \o BsonMessages(Exchange(proc[p].message.message,
                                                            proc[p].response,
                                                            proc[p].conversation.updated_at))]
    /\ proc' = [proc EXCEPT ![p] = Idle]
    /\ IF proc[p].response = "REMINDER_COMMAND:call:Call son:15:00"
       THEN /\ reminders' = Append(reminders,
                                   [_id |-> nextOid, user_id |-> proc[p].user_id,
                                    type |-> "call", title |-> "Call son", time |-> "15:00",
                                    enabled |-> TRUE, created_at |-> BsonDatetime(now)])
            /\ nextOid' = nextOid + 1
       ELSE UNCHANGED <<nextOid, reminders>>
    /\ UNCHANGED <<now, users>>

\* POST /chat, from the await of update_one to the response
chat_update(p) ==
    /\ proc[p].pc = "chat_update"
    /\ conversations' = SetConversation(proc[p].conversation)
    /\ resp' = [proc |-> p, op |-> "chat", req |-> proc[p].message, status |-> 200,
                body |-> [response |-> proc[p].response, timestamp |-> now],
                wrote |-> proc[p].conversation, alone |-> proc[p].alone]
    /\ hist' = [hist EXCEPT !.ok_chats[proc[p].user_id] = @ + 1,
                             !.log[proc[p].user_id] =
                                 @ \o BsonMessages(Exchange(proc[p].message.message,
                                                            proc[p].response,
                                                            proc[p].conversation.updated_at))]
    /\ proc' = [proc EXCEPT ![p] = Idle]
    /\ UNCHANGED <<now, nextOid, users, reminders>>

\* GET /conversations/{user_id}: the body returned
get_conversation_body(user_id) ==
    IF IsNone(FindConversation(user_id)) THEN [messages |-> <<>>]
    ELSE serialize_doc(Val(FindConversation(user_id)))

\* GET /conversations/{user_id}
get_conversation(p, user_id) ==
    /\ proc[p].pc = "idle"
    /\ resp' = Ok(p, "get_conversation", user_id, get_conversation_body(user_id))
    /\ UNCHANGED <<now, nextOid, users, reminders, conversations, proc, hist>>

\* the clock advances
Tick ==
    /\ now < MaxTicks * TickUs
    /\ now' = now + TickUs
    /\ UNCHANGED <<nextOid, users, reminders, conversations, proc, resp, hist>>

----------------------------------------------------------------------------
(* Requests *)

ChatUsers == {"default", "rajesh_kumar"}
ReminderUsers == {"default", "rajesh_kumar"}

UserInputs ==
    { [name |-> "Rajesh", emergency_contacts |-> <<>>],
      [name |-> "Asha", emergency_contacts |-> <<[name |-> "Ravi", phone |-> "100"]>>] }

\* the reminder of test_reminder_creation_medicine
TestReminder ==
    [type |-> "medicine", title |-> "Pills", time |-> "08:00", enabled |-> TRUE]

\* a snoozed_until a client sends: a quarter of an hour and a fraction of a millisecond
SnoozeTime == timedelta(15) + TickUs

\* the update of test_reminder_update
TestUpdate ==
    [title |-> None, time |-> Some("08:30"), enabled |-> Some(FALSE), snoozed_until |-> None]

UpdateInputs ==
    { [title |-> None, time |-> None, enabled |-> None, snoozed_until |-> None],
      TestUpdate,
      [title |-> Some("Pills"), time |-> None, enabled |-> None, snoozed_until |-> None],
      [title |-> None, time |-> None, enabled |-> None, snoozed_until |-> Some(SnoozeTime)] }

\* the updates of the frame specification: one that supplies no field, and
\* the update of test_reminder_update
FrameUpdates ==
    { [title |-> None, time |-> None, enabled |-> None, snoozed_until |-> None],
      TestUpdate }

Minutes == {0, 15}

\* the minutes of the frame specification: the default of snooze_reminder
FrameMinutes == {15}

Hello == [message |-> "Hello", user_id |-> None]

\* the chat requests of the chat specification
OverlapInputs ==
    [message : {"", "Hello"}, user_id : {None, Some("rajesh_kumar")}]

\* the chat requests of the sequential specification
SeqInputs ==
    [message : {"Hello"}, user_id : {None, Some(""), Some("rajesh_kumar")}]

\* the chat requests of the history specification: each user numbers their messages
NumberedInputs ==
    { [message |-> "Message " \o ToString(hist.ok_chats[u] + 1), user_id |-> Some(u)] :
          u \in ChatUsers }

Command == "REMINDER_COMMAND:call:Call son:15:00"

Replies == {"Namaste", Command}

\* the ids a client can name: those handed out, one not handed out, and a malformed one
PathIds == {OidStr(n) : n \in 1..nextOid} \cup {"invalid_id"}

\* the chat requests in flight
ChatsInFlight == {p \in Procs : proc[p].pc \in ChatPcs}

\* the chat requests answered 200
ChatsDone == hist.ok_chats["default"] + hist.ok_chats["rajesh_kumar"]

\* the requests to the user endpoints, while fewer than maxOid documents were inserted
UserOps(p, maxOid) ==
    \/ \E user \in UserInputs : nextOid <= maxOid /\ create_user(p, user)
    \/ \E id \in PathIds : get_user(p, id)
    \/ get_users(p)

\* the requests to the reminder endpoints
ReminderOps(p, owners, ids, updates, minutes, maxOid) ==
    \/ \E u \in owners : nextOid <= maxOid /\ create_reminder(p, TestReminder, u)
    \/ \E u \in owners : get_reminders(p, u)
    \/ \E id \in ids : get_reminder(p, id)
    \/ \E id \in ids, update \in updates : update_reminder(p, id, update)
    \/ update_reminder_find(p)
    \/ \E id \in ids : delete_reminder(p, id)
    \/ \E id \in ids, m \in minutes : snooze_reminder(p, id, m)

\* the requests to the chat endpoints, while fewer than maxChats chats were started
ChatOps(p, inputs, replies, maxChats) ==
    \/ \E message \in inputs :
          /\ ChatsDone + Cardinality(ChatsInFlight) < maxChats
          /\ chat(p, message)
    \/ chat_insert(p)
    \/ \E response \in replies : chat_llm(p, response)
    \/ chat_llm_fails(p)
    \/ chat_update(p)
    \/ \E u \in ChatUsers : get_conversation(p, u)

Init ==
    /\ now = 0
    /\ nextOid = 1
    /\ users = <<>>
    /\ reminders = <<>>
    /\ conversations = <<>>
    /\ proc = [p \in Procs |-> Idle]
    /\ resp = NoResp
    /\ hist = [sessions |-> [u \in ChatUsers |-> {}],
               ok_chats |-> [u \in ChatUsers |-> 0],
               log |-> [u \in ChatUsers |-> <<>>],
               live |-> [u \in ReminderUsers |-> {}],
               deleted |-> {},
               submitted |-> {}]

----------------------------------------------------------------------------
(* The general specification: every endpoint, one client *)

Next ==
    \/ UserOps("c1", MaxOid)
    \/ ReminderOps("c1", {"default"}, PathIds, {TestUpdate}, {15}, MaxOid)
    \/ ChatOps("c1", {Hello}, Replies, MaxChats)

Spec == Init /\ [][Next]_vars

----------------------------------------------------------------------------
(* The reminders specification: the reminder endpoints, requests           *)
(* overlapping, the clock running                                          *)

NextReminders ==
    \/ Tick
    \/ \E p \in Procs :
          ReminderOps(p, {"default"}, PathIds, UpdateInputs, Minutes, MaxReminders)

SpecReminders == Init /\ [][NextReminders]_vars

----------------------------------------------------------------------------
(* The frame specification: the reminder endpoints, requests overlapping,  *)
(* the clock at rest                                                       *)

NextFrame ==
    \E p \in Procs : ReminderOps(p, {"default"}, PathIds, FrameUpdates, FrameMinutes, MaxOid)

SpecFrame == Init /\ [][NextFrame]_vars

----------------------------------------------------------------------------
(* The chat specification: the chat endpoints, requests overlapping *)

NextChat == \E p \in Procs : ChatOps(p, OverlapInputs, {"Namaste"}, MaxOverlap)

SpecChat == Init /\ [][NextChat]_vars

----------------------------------------------------------------------------
(* The sequential specification: the chat endpoints, one request at a time *)

NextSeq ==
    \E p \in Procs : ChatsInFlight \subseteq {p} /\ ChatOps(p, SeqInputs, {"Namaste"}, SeqChats)

SpecSeq == Init /\ [][NextSeq]_vars

----------------------------------------------------------------------------
(* The history specification: one client sends numbered messages, one      *)
(* request at a time, until a conversation is longer than HistoryLimit     *)

NextHistory == ChatOps("c1", NumberedInputs, {"Namaste"}, MaxHistory)

SpecHistory == Init /\ [][NextHistory]_vars

----------------------------------------------------------------------------
(* The list specification: one client fills the reminder list of a user    *)
(* past ListLimit, beside a reminder of another user; the first reminder   *)
(* is updated, snoozed and deleted                                         *)

NextList ==
    \/ nextOid <= ListLimit + ListExtra /\ create_reminder("c1", TestReminder, "default")
    \/ nextOid <= 2 /\ create_reminder("c1", TestReminder, "rajesh_kumar")
    \/ \E u \in ReminderUsers : get_reminders("c1", u)
    \/ update_reminder("c1", "1", TestUpdate)
    \/ update_reminder_find("c1")
    \/ snooze_reminder("c1", "1", 15)
    \/ delete_reminder("c1", "1")

SpecList == Init /\ [][NextList]_vars

----------------------------------------------------------------------------
(* Properties *)

\* a reminder with this id is stored in coll
HasReminder(coll, id) ==
    IsValidOid(id) /\ \E i \in DOMAIN coll : coll[i]._id = ObjectId(id)

\* the reminder with this id in coll
ReminderIn(coll, id) == Val(find_one(coll, [_id |-> ObjectId(id)]))

\* the reminder returned carries every value the update supplies
Supplies(update, body) ==
    /\ IsNone(update.title) \/ body.title = Val(update.title)
    /\ IsNone(update.time) \/ body.time = Val(update.time)
    /\ IsNone(update.enabled) \/ body.enabled = Val(update.enabled)
    /\ IsNone(update.snoozed_until) \/ body.snoozed_until = update.snoozed_until

\* the ids of the reminders in a list returned
IdsOf(list) == {list[i].id : i \in DOMAIN list}

\* the conversation documents of a user
ConversationsOf(u) == {i \in DOMAIN conversations : conversations[i].user_id = u}

\* C1: a PATCH of an existing reminder that supplies at least one field is
\* answered 200 with a reminder that has the supplied values: the update is
\* accepted (the handler goes on to read the reminder back) and the reminder
\* read back is returned with those values.
C1_PatchReturnsSupplied ==
    [][\A p \in Procs :
          /\ \A id \in PathIds, update \in UpdateInputs :
                (/\ DOMAIN update_dict(update) # {}
                 /\ HasReminder(reminders, id)
                 /\ update_reminder(p, id, update))
                => proc'[p].pc = "update_find"
          /\ update_reminder_find(p)
                => (resp'.status = 200 /\ Supplies(proc[p].req.update, resp'.body))
      ]_vars

\* C2 as stated: GET /reminders?user_id=u returns every reminder created for
\* u and not deleted since.
C2_ListsEveryReminder ==
    \A u \in ReminderUsers : hist.live[u] \subseteq IdsOf(get_reminders_list(u))

\* C2 as amended: GET /reminders?user_id=u returns min(n, 100) distinct
\* reminders out of the n created for u and not deleted since, hence all of
\* them while n <= 100.
C2_ListsUpToLimit ==
    \A u \in ReminderUsers :
        LET list == get_reminders_list(u)
            n == Cardinality(hist.live[u])
        IN  /\ IdsOf(list) \subseteq hist.live[u]
            /\ \A i \in DOMAIN list : list[i].user_id = u
            /\ Cardinality(IdsOf(list)) = Len(list)
            /\ Len(list) = IF n <= ListLimit THEN n ELSE ListLimit
            /\ n <= ListLimit => IdsOf(list) = hist.live[u]

\* C2: more than 100 reminders of a user are stored, one of them updated and
\* snoozed, and the list was just returned
C2_Witness ==
    /\ Cardinality(hist.live["default"]) > ListLimit
    /\ hist.live["rajesh_kumar"] # {}
    /\ resp.op = "get_reminders" /\ resp.req = "default"
    /\ Len(resp.body) = ListLimit
    /\ \E i \in DOMAIN reminders :
          ~reminders[i].enabled /\ "snoozed_until" \in DOMAIN reminders[i]

\* C3: a chat request with an empty message is answered 400 or 422 at once:
\* no call of the language model follows and the conversations stay as they are.
C3_EmptyMessageRejected ==
    [][\A p \in Procs, message \in OverlapInputs :
          (message.message = "" /\ chat(p, message))
          => (/\ proc'[p].pc = "idle"
              /\ resp'.op = "chat" /\ resp'.proc = p
              /\ resp'.status \in {400, 422}
              /\ UNCHANGED <<conversations, hist>>)
      ]_vars

\* C4: the write of a chat request replaces the stored message list by the
\* handler's own copy (the list it read at its start plus its own exchange),
\* whatever other requests wrote in between: right after a chat is answered
\* 200 the stored list is that copy.
C4_LastWriteWins ==
    (resp.op = "chat" /\ resp.status = 200)
    => \E i \in DOMAIN conversations :
          /\ conversations[i]._id = resp.wrote._id
          /\ conversations[i].messages = BsonMessages(resp.wrote.messages)

\* C4: two overlapping chat requests of one user were both answered 200 and
\* the user's only conversation holds the exchange of one of them
C4_Witness ==
    /\ resp.op = "chat" /\ resp.status = 200 /\ ~resp.alone
    /\ hist.ok_chats["rajesh_kumar"] = 2
    /\ ChatsInFlight = {}
    /\ Cardinality(ConversationsOf("rajesh_kumar")) = 1
    /\ Len(get_conversation_body("rajesh_kumar").messages) = 2

C6_OneSessionPerUser ==
    /\ \A u \in ChatUsers :
          /\ Cardinality(hist.sessions[u]) <= 1
          /\ \A sid \in hist.sessions[u] :
                /\ ConversationsOf(u) # {}
                /\ sid = OidStr(conversations[MinOf(ConversationsOf(u))]._id)
    /\ \A p \in ChatsInFlight :
          /\ IsNone(proc[p].message.user_id) => proc[p].user_id = "default"
          /\ proc[p].pc # "chat_insert" => proc[p].conversation.user_id = proc[p].user_id

\* C6: three chats were answered, two of one user and one without user_id
C6_Witness ==
    /\ hist.ok_chats["rajesh_kumar"] = 2
    /\ hist.ok_chats["default"] = 1
    /\ hist.sessions["rajesh_kumar"] # {}
    /\ hist.sessions["default"] # {}

\* C7: no step of the chat handler changes db.reminders, and the text the
\* language model returned is the response of the request, unchanged.
C7_ChatLeavesReminders ==
    [][\A p \in Procs :
          /\ (proc'[p] # proc[p] /\ (proc[p].pc \in ChatPcs \/ proc'[p].pc \in ChatPcs))
                => reminders' = reminders
          /\ \A response \in Replies :
                chat_llm(p, response) => proc'[p].response = response
          /\ chat_update(p)
                => (/\ resp'.op = "chat" /\ resp'.status = 200
                    /\ resp'.body.response = proc[p].response)
      ]_vars

\* C7: a chat was answered with a REMINDER_COMMAND beside a stored reminder
C7_Witness ==
    /\ resp.op = "chat" /\ resp.status = 200
    /\ resp.body.response = Command
    /\ Len(reminders) = 1

\* C8: a snooze of an existing reminder by m minutes is answered 200 with the
\* message "Reminder snoozed for m minutes" and a snoozed_until of the request
\* time plus m minutes, and the stored snoozed_until is the value returned.
C8_SnoozeReturnsStored ==
    [][\A p \in Procs, id \in PathIds, m \in Minutes :
          (HasReminder(reminders, id) /\ snooze_reminder(p, id, m))
          => (/\ resp'.status = 200
              /\ resp'.body.message = SnoozeMessage(m)
              /\ resp'.body.snoozed_until = now + timedelta(m)
              /\ ReminderIn(reminders', id).snoozed_until = resp'.body.snoozed_until)
      ]_vars

\* C9: GET /users/{i} returns, for every user submitted so far, 200 with the
\* id returned at creation and the name and emergency contacts submitted.
C9_UserRoundTrip ==
    /\ Len(users) = Cardinality(hist.submitted)
    /\ \A c \in hist.submitted :
          LET r == get_user_response("c1", c.id)
          IN  /\ r.status = 200
              /\ r.body.id = c.id
              /\ r.body.name = c.user.name
              /\ r.body.emergency_contacts = c.user.emergency_contacts

\* C9: two users were submitted; the second was returned after other requests
C9_Witness ==
    /\ Cardinality(hist.submitted) = 2
    /\ resp.op = "get_user" /\ resp.status = 200
    /\ resp.body.name = "Asha"
    /\ resp.body.emergency_contacts # <<>>

\* C10: GET /users/{id} and GET /reminders/{id} with a malformed id are
\* answered 400 and leave the three collections as they are.
C10_MalformedIdIs400 ==
    [][\A p \in Procs, id \in PathIds :
          ~IsValidOid(id)
          => /\ get_user(p, id)
                => (/\ resp'.op = "get_user" /\ resp'.status = 400
                    /\ UNCHANGED <<users, reminders, conversations>>)
             /\ get_reminder(p, id)
                => (/\ resp'.op = "get_reminder" /\ resp'.status = 400
                    /\ UNCHANGED <<users, reminders, conversations>>)
      ]_vars

\* C10: a malformed reminder id was answered 400 beside stored documents
C10_Witness ==
    /\ resp.op = "get_reminder" /\ resp.req = "invalid_id" /\ resp.status = 400
    /\ users # <<>>
    /\ reminders # <<>>

\* the fields an update supplies
Supplied(update) == {f \in DOMAIN update : ~IsNone(update[f])}

\* d and e are the same document but for the fields in keys
SameExcept(d, e, keys) ==
    /\ DOMAIN d \ keys = DOMAIN e \ keys
    /\ \A k \in DOMAIN d \ keys : d[k] = e[k]

\* the places in coll of the documents with this id
PlacesOf(coll, id) ==
    IF IsValidOid(id) THEN {i \in DOMAIN coll : coll[i]._id = ObjectId(id)} ELSE {}

\* C11: a DELETE of an existing reminder is answered 200 and removes that
\* reminder and no other, the rest staying as they are; from then on the id is
\* in no list GET /reminders returns, and GET, PATCH, snooze and DELETE on it
\* are answered with an error and do not bring it back.
C11_DeleteRemovesExactly ==
    [][/\ \A p \in Procs, id \in PathIds :
             (HasReminder(reminders, id) /\ delete_reminder(p, id))
             => (/\ resp'.op = "delete_reminder" /\ resp'.status = 200
                 /\ reminders' = SelectSeq(reminders, LAMBDA d : d._id # ObjectId(id))
                 /\ Len(reminders') = Len(reminders) - 1)
       /\ \A id \in hist.deleted :
             /\ ~HasReminder(reminders, id) /\ ~HasReminder(reminders', id)
             /\ \A u \in ReminderUsers : id \notin IdsOf(get_reminders_list(u))
             /\ \A p \in Procs :
                   /\ get_reminder(p, id) => (resp'.proc = p /\ resp'.status >= 400)
                   /\ \A update \in FrameUpdates :
                         update_reminder(p, id, update)
                         => (resp'.proc = p /\ resp'.status >= 400 /\ proc'[p].pc = "idle")
                   /\ (update_reminder_find(p) /\ proc[p].req.reminder_id = id)
                         => (resp'.proc = p /\ resp'.status >= 400)
                   /\ \A m \in FrameMinutes :
                         snooze_reminder(p, id, m) => (resp'.proc = p /\ resp'.status >= 400)
                   /\ delete_reminder(p, id) => (resp'.proc = p /\ resp'.status >= 400)
      ]_vars

\* C11: a second DELETE of a deleted reminder was answered with an error,
\* another reminder still being stored
C11_Witness ==
    /\ resp.op = "delete_reminder" /\ resp.status >= 400
    /\ resp.req \in hist.deleted
    /\ Len(reminders) = 1

\* C12: GET /users/{id}, GET, PATCH, DELETE /reminders/{id} and POST
\* /reminders/{id}/snooze with a well-formed id that names no stored document
\* are answered 404.
C12_MissingIdIs404 ==
    [][\A p \in Procs, id \in PathIds :
          /\ (IsValidOid(id) /\ PlacesOf(users, id) = {} /\ get_user(p, id))
                => resp'.status = 404
          /\ (IsValidOid(id) /\ ~HasReminder(reminders, id))
                => /\ get_reminder(p, id) => resp'.status = 404
                   /\ update_reminder(p, id, TestUpdate) => resp'.status = 404
                   /\ delete_reminder(p, id) => resp'.status = 404
                   /\ \A m \in Minutes : snooze_reminder(p, id, m) => resp'.status = 404
      ]_vars

\* C13: every stored conversation has at most 10 messages.
C13_AtMostTenMessages ==
    \A i \in DOMAIN conversations : Len(conversations[i].messages) <= 10

C15_OneConversationPerUser ==
    \A u \in ChatUsers : Cardinality(ConversationsOf(u)) <= 1

\* C16: a chat request whose language-model call fails is answered 500 and
\* the conversations are as they were when the request arrived.
C16_FailedChatLeavesConversations ==
    [][\A p \in Procs :
          chat_llm_fails(p)
          => (/\ resp'.op = "chat" /\ resp'.status = 500
              /\ conversations' = proc[p].before)
      ]_vars

\* no field of the update is supplied
SuppliesNothing(update) == \A f \in DOMAIN update : IsNone(update[f])

\* C17: a PATCH that supplies no field is answered 400 "No fields to update"
\* at once and leaves the reminders as they are.
C17_EmptyPatchRejected ==
    [][\A p \in Procs, id \in PathIds, update \in FrameUpdates :
          (SuppliesNothing(update) /\ update_reminder(p, id, update))
          => (/\ resp'.op = "update_reminder" /\ resp'.proc = p
              /\ resp'.status = 400
              /\ resp'.error = "HTTPException(400, No fields to update)"
              /\ proc'[p].pc = "idle"
              /\ reminders' = reminders)
      ]_vars

\* C17: a PATCH without fields on a stored reminder was rejected
C17_Witness ==
    /\ resp.op = "update_reminder" /\ resp.status = 400
    /\ resp.error = "HTTPException(400, No fields to update)"
    /\ HasReminder(reminders, resp.req.reminder_id)

\* C18: a PATCH or a snooze changes neither the number of reminders nor any
\* reminder but the one it names; of that one a PATCH changes at most the
\* fields it supplies and a snooze at most snoozed_until, so that id,
\* user_id, type and created_at (and, for a snooze, enabled, title and time)
\* stay; the read that ends a PATCH changes nothing.  (A step that leaves
\* the reminders as they are changes no field: only the others are looked at.)
C18_PatchSnoozeFrame ==
    [][/\ \A p \in Procs : update_reminder_find(p) => reminders' = reminders
       /\ reminders' # reminders
          => \A p \in Procs, id \in PathIds :
                /\ \A update \in FrameUpdates :
                      update_reminder(p, id, update)
                      => (/\ Len(reminders') = Len(reminders)
                          /\ \A i \in DOMAIN reminders :
                                IF i \in PlacesOf(reminders, id)
                                THEN SameExcept(reminders[i], reminders'[i], Supplied(update))
                                ELSE reminders'[i] = reminders[i])
                /\ \A m \in FrameMinutes :
                      snooze_reminder(p, id, m)
                      => (/\ Len(reminders') = Len(reminders)
                          /\ \A i \in DOMAIN reminders :
                                IF i \in PlacesOf(reminders, id)
                                THEN SameExcept(reminders[i], reminders'[i], {"snoozed_until"})
                                ELSE reminders'[i] = reminders[i])
      ]_vars

\* C18: of two stored reminders one was updated and snoozed and the other is
\* as it was created
C18_Witness ==
    /\ resp.op \in {"update_reminder", "snooze_reminder"} /\ resp.status = 200
    /\ \E i, j \in DOMAIN reminders :
          /\ ~reminders[i].enabled /\ reminders[i].time = "08:30"
          /\ "snoozed_until" \in DOMAIN reminders[i]
          /\ reminders[i].title = TestReminder.title
          /\ SameExcept(reminders[j], TestReminder, {"_id", "user_id", "created_at"})

\* C19: no step clears a snooze: a stored reminder that has a snoozed_until
\* has one after every step that leaves it stored, and the reminder a PATCH
\* returns for it shows one.
C19_SnoozeStays ==
    [][/\ \A i \in DOMAIN reminders, j \in DOMAIN reminders' :
             ("snoozed_until" \in DOMAIN reminders[i] /\ reminders'[j]._id = reminders[i]._id)
             => "snoozed_until" \in DOMAIN reminders'[j]
       /\ \A p \in Procs :
             (/\ update_reminder_find(p)
              /\ resp'.status = 200
              /\ \E i \in PlacesOf(reminders, proc[p].req.reminder_id) :
                    "snoozed_until" \in DOMAIN reminders[i])
             => ~IsNone(resp'.body.snoozed_until)
      ]_vars

\* C19: a PATCH with snoozed_until null on a snoozed reminder was answered
\* with the reminder still snoozed
C19_Witness ==
    /\ resp.op = "update_reminder" /\ resp.status = 200
    /\ IsNone(resp.req.update.snoozed_until)
    /\ ~IsNone(resp.body.snoozed_until)

\* C20: PATCH, snooze and DELETE on an id that names no stored reminder,
\* well-formed or malformed, are answered with an error at once and leave
\* the reminders as they are.
C20_FailedLeavesUnchanged ==
    [][\A p \in Procs, id \in PathIds :
          ~HasReminder(reminders, id)
          => /\ \A update \in FrameUpdates :
                   update_reminder(p, id, update)
                   => (/\ resp'.proc = p /\ resp'.status >= 400
                       /\ proc'[p].pc = "idle"
                       /\ reminders' = reminders)
             /\ \A m \in FrameMinutes :
                   snooze_reminder(p, id, m)
                   => (resp'.proc = p /\ resp'.status >= 400 /\ reminders' = reminders)
             /\ delete_reminder(p, id)
                   => (resp'.proc = p /\ resp'.status >= 400 /\ reminders' = reminders)
      ]_vars

\* C20: a snooze of a deleted reminder was answered with an error beside a
\* stored reminder
C20_Witness ==
    /\ reminders # <<>>
    /\ resp.op = "snooze_reminder" /\ resp.status >= 400
    /\ resp.req.reminder_id \in hist.deleted

====
